---------------------------- MODULE Spec2Model ----------------------------
(***************************************************************************)
(* A model of the aiohttp-client repository: the response normaliser       *)
(* (src/async_client_response.py) and the request executor with its retry  *)
(* policy, rate-limiter gate and lazily started session                    *)
(* (src/aiohttp_client/async_client.py).                                   *)
(*                                                                         *)
(* Python's None is modelled by the empty set and a present optional value *)
(* v by the singleton {v}.  Time is discrete: one second is TicksPerSec    *)
(* ticks.                                                                  *)
(***************************************************************************)
EXTENDS Integers, Sequences, FiniteSets, TLC

\* ------------------------------------------------------------------ bounds
\* The largest max_attempts a client is constructed with.
MaxAttempts == 3
\* The largest rate_limit a client is constructed with.
MaxRate == 2
\* the deepest nesting of `async with client` blocks of one caller
MaxScopes == 2
\* the most ClientSession objects one client creates
MaxSessions == 3
\* The number of clock ticks in one second.
TicksPerSec == 2

\* ---------------------------------------------------------- Python values
NoneVal == {}
Some(v) == {v}
Val(o) == CHOOSE v \in o : TRUE

\* JSON scalars as they arrive in a decoded payload.
StrV(s) == [k |-> "str", s |-> s, n |-> 0]
IntV(n) == [k |-> "int", s |-> "", n |-> n]

\* bool(v) of a payload value
Truthy(v) == IF v.k = "str" THEN v.s # "" ELSE v.n # 0

\* str(v) of a payload value
PyStr(v) == IF v.k = "str" THEN v.s ELSE ToString(v.n)

\* bool(s) of an Optional[str]
BoolOpt(o) == o # NoneVal /\ Val(o) # ""

EmptyDict == <<>>

\* ------------------------------------------------- AsyncClientResponse
\* The set literal of __post_init__; a Python set of strings iterates in an
\* order fixed by the interpreter's hash seed, so every order can occur.
ErrorKeys == {"error", "errors", "error_message"}

KeyOrders ==
    {o \in [1..3 -> ErrorKeys] : \A i, j \in 1..3 : i # j => o[i] # o[j]}

\* The order the source text of the set literal spells out.
WrittenOrder == <<"error", "errors", "error_message">>

\* any((matched_key := key) in self.data for key in {...}): whether some key
\* of the iteration is in data
AnyMatch(data, order) == \E i \in 1..3 : order[i] \in DOMAIN data

\* the value the walrus leaves in matched_key when the generator stopped at
\* the first key found in data
MatchedKey(data, order) ==
    order[CHOOSE i \in 1..3 :
            /\ order[i] \in DOMAIN data
            /\ \A j \in 1..(i - 1) : order[j] \notin DOMAIN data]

\* __post_init__ on the fields the dataclass constructor stored; data is an
\* Optional[dict], error an Optional[str].
PostInit(code, text, data, error, reason, isErr, order) ==
    LET d  == IF data = NoneVal \/ Val(data) = EmptyDict
              THEN EmptyDict ELSE Val(data)
        r0 == [code |-> code, text |-> text, data |-> d, error |-> error,
               reason |-> reason, _is_error |-> isErr]
    IN  IF AnyMatch(d, order)
        THEN LET mk == MatchedKey(d, order)
             IN  IF Truthy(d[mk])
                 THEN [r0 EXCEPT
                         !.error = Some(IF Truthy(d[mk]) THEN PyStr(d[mk])
                                        ELSE reason \o " - " \o text),
                         !._is_error = TRUE]
                 ELSE r0
        ELSE IF isErr
             THEN [r0 EXCEPT !.error = Some(text), !._is_error = TRUE]
             ELSE r0

\* the is_error property
is_error(r) == r._is_error \/ BoolOpt(r.error)

\* the is_empty property
is_empty(r) == r.data = EmptyDict

\* ------------------------------------------------------------- state
VARIABLES
    args,       \* the arguments of one AsyncClientResponse(...) call
    made,       \* the Response that call constructed, once it has
    cfg,        \* the fields AsyncClient.__init__ stores
    session,    \* self.session: None or the id of a ClientSession
    closed,     \* the ids of the sessions whose close() has completed
    opened,     \* how many ClientSession objects were created so far
    level,      \* the limiter's bucket level, in 1/TicksPerSec permits
    recent,     \* recent[a]: gated network calls started a ticks ago
    task,       \* each caller's coroutine: position and locals of _request
    hist        \* per caller: what its current call has done so far

respVars == <<args, made>>

clientVars == <<cfg, session, closed, opened, level, recent, task, hist>>

vars == <<args, made, cfg, session, closed, opened, level, recent, task, hist>>

\* ------------------------------------------------------ AsyncClient.__init__
\* The defaults of the constructor's signature.
DefaultConfig ==
    [base_url |-> <<>>, rate_limit |-> NoneVal, max_attempts |-> 3,
     retry_timeout |-> Some(10),
     allow_timeout_error_retry |-> TRUE,
     allow_status_error_retry |-> FALSE,
     allow_http_error_retry |-> FALSE,
     allow_json_decode_error_retry |-> FALSE,
     allow_too_many_reqs_retry |-> FALSE]

\* self.use_request_limit
use_request_limit == cfg.rate_limit # NoneVal

\* self.limiter is an AsyncLimiter(rate_limit, 1) or None
HasLimiter == use_request_limit

\* self.retryable_errors: the classes the flags let through filter(None, ...)
retryable_errors ==
    (IF cfg.allow_json_decode_error_retry
        THEN {"JSONDecodeError", "ContentTypeError"} ELSE {})
    \cup (IF cfg.allow_timeout_error_retry
        THEN {"TimeoutError", "ConnectionTimeoutError", "ClientConnectionError"}
        ELSE {})
    \cup (IF cfg.allow_status_error_retry THEN {"ClientResponseError"} ELSE {})
    \cup (IF cfg.allow_http_error_retry THEN {"ClientError"} ELSE {})

\* ------------------------------------------------------------ exceptions
Exc(cls, status) == [cls |-> cls, status |-> status]

\* The classes of an exception class's method resolution order that the
\* client names (aiohttp, asyncio and json class hierarchy).
Bases(cls) ==
    CASE cls = "ContentTypeError" ->
           {"ContentTypeError", "ClientResponseError", "ClientError"}
      [] cls = "TooManyRedirects" ->
           {"TooManyRedirects", "ClientResponseError", "ClientError"}
      [] cls = "ClientResponseError" -> {"ClientResponseError", "ClientError"}
      [] cls = "ConnectionTimeoutError" ->
           {"ConnectionTimeoutError", "TimeoutError", "ClientConnectionError",
            "ClientError"}
      [] cls = "ClientConnectionError" -> {"ClientConnectionError", "ClientError"}
      [] cls = "ClientPayloadError" -> {"ClientPayloadError", "ClientError"}
      [] OTHER -> {cls}

\* isinstance(e, classes)
IsInstance(e, classes) == Bases(e.cls) \cap classes # {}

\* The except clause of _request that catches e, in the order of the source.
Handler(e) ==
    IF IsInstance(e, {"ClientResponseError"}) THEN "status"
    ELSE IF IsInstance(e, {"JSONDecodeError", "ContentTypeError", "TimeoutError",
                           "ConnectionTimeoutError", "ClientError",
                           "ClientConnectionError"}) THEN "known"
    ELSE "base"

\* str(e), as far as the messages are compared
StrExc(e) == IF e.status = 0 THEN "" ELSE ToString(e.status)

\* main_message of _retry
MainMessage(e, method) ==
    e.cls \o " " \o StrExc(e) \o " in " \o method \o " method. kwargs: {}"

NonRetryableMessage(e, method) ==
    "Non-retryable error: " \o MainMessage(e, method)

ExhaustedMessage(e, n, max, method) ==
    "Failed after attempting " \o ToString(n) \o "/" \o ToString(max)
        \o " times. " \o MainMessage(e, method)

\* the text of the Response the last except clause builds
BaseExceptionMessage(e, method) ==
    "BaseException in " \o method \o " request - " \o e.cls \o ": "
        \o StrExc(e) \o ". kwargs: {}"

\* 2 ** n
\* A backoff that stops growing after the first doubling.
Pow2Capped(n) == IF n <= 0 THEN 1 ELSE 2

RECURSIVE Pow2(_)
Pow2(n) == IF n <= 0 THEN 1 ELSE 2 * Pow2(n - 1)

\* ------------------------------------------------------------------ _retry
\* What _retry(e, attempt_count, method, kwargs) does: it returns a fail
\* message, or sleeps (for `sleep` seconds) and returns None.
Retry(e, attempt_count, method) ==
    IF ~IsInstance(e, retryable_errors)
    THEN [fail_message |-> Some(NonRetryableMessage(e, method)),
          sleep |-> NoneVal]
    ELSE IF attempt_count = cfg.max_attempts
    THEN [fail_message |-> Some(ExhaustedMessage(e, attempt_count,
                                                 cfg.max_attempts, method)),
          sleep |-> NoneVal]
    ELSE IF attempt_count < cfg.max_attempts
    THEN [fail_message |-> NoneVal,
          sleep |-> Some(IF cfg.retry_timeout # NoneVal
                         THEN Val(cfg.retry_timeout)
                         ELSE Pow2(attempt_count))]
    ELSE [fail_message |-> Some(MainMessage(e, method)), sleep |-> NoneVal]

\* ----------------------------------------------------------------- callers
Tasks == {"t1", "t2", "t3"}

\* A coroutine that is not inside _request; scopes counts the `async with
\* client` blocks it is inside of.
IdleTask ==
    [pc |-> "idle", method |-> "", url |-> <<>>, use_request_limit |-> FALSE,
     attempt |-> 0, text |-> NoneVal, timer |-> 0, result |-> NoneVal,
     raised |-> NoneVal, scopes |-> 0]

\* What a call has done so far (kept for the properties, not read by the
\* client): the public method and per-call flag it was made with, the network
\* calls issued, permits taken and sleeps begun, the exception of its latest
\* failed attempt, whether all its failed attempts raised the same exception,
\* and how it ended; the operation the caller made before this one, the url
\* argument, the session a lazy start created for the call, the session its
\* latest network call was issued on, where it was cancelled, and whether
\* the body of the scope it leaves raised.
NoHist ==
    [api |-> "", flag |-> NoneVal, attempts |-> 0, permits |-> 0, waits |-> 0,
     lastExc |-> NoneVal, uniform |-> TRUE, outcome |-> "",
     prev |-> "", raw |-> <<>>, fresh |-> NoneVal, on |-> NoneVal,
     cancelled |-> "", body_raised |-> FALSE, got |-> NoneVal]

Failed(h, e, tk) ==
    [h EXCEPT !.lastExc = Some(e),
              !.uniform = @ /\ (h.lastExc = NoneVal \/ h.lastExc = Some(e)),
              !.waits = IF tk.pc = "sleep" THEN @ + 1 ELSE @,
              !.outcome = IF tk.pc = "sleep" THEN "" ELSE "failure"]

\* The failed Response of the except clauses: data and error keep their
\* defaults (None), so no key of the set literal is looked up and the
\* iteration order does not matter.
FailedResponse(code, text, reason) ==
    PostInit(code, text, NoneVal, NoneVal, reason, TRUE, WrittenOrder)

\* An except BaseException clause that consulted _retry as the clauses above
\* it do, with every exception taken as retryable.
HandleBaseExceptionWithRetry(tk, e) ==
    IF tk.attempt < cfg.max_attempts
    THEN [tk EXCEPT !.pc = "sleep",
                    !.timer = (IF cfg.retry_timeout # NoneVal
                               THEN Val(cfg.retry_timeout)
                               ELSE Pow2(tk.attempt)) * TicksPerSec]
    ELSE [tk EXCEPT
            !.pc = "done",
            !.result = Some(FailedResponse(
                          0, ExhaustedMessage(e, tk.attempt, cfg.max_attempts,
                                              tk.method), ""))]

\* The except BaseException clause of _request: it returns a failed Response
\* at once, without consulting _retry.
HandleBaseException(tk, e) ==
    [tk EXCEPT
       !.pc = "done",
       !.result = Some(FailedResponse(
                     0, BaseExceptionMessage(e, tk.method), ""))]

\* The except clauses of _request on exception e raised in the try block of
\* the attempt tk.attempt; tk.text is the local `text` (None while unbound).
\* The coroutine returns a Response, goes to sleep inside _retry, or the
\* f-string's read of the unbound local raises out of the except clause.
Handle(tk, e) ==
    LET r == Retry(e, tk.attempt, tk.method)
    IN  CASE Handler(e) = "status" ->
               IF r.fail_message # NoneVal
               THEN IF tk.text = NoneVal
                    THEN [tk EXCEPT !.pc = "raised",
                                    !.raised = Some("UnboundLocalError")]
                    ELSE [tk EXCEPT
                            !.pc = "done",
                            !.result = Some(FailedResponse(
                                e.status,
                                Val(r.fail_message) \o ". text: " \o Val(tk.text),
                                IF e.status = 429 /\ cfg.allow_too_many_reqs_retry
                                THEN "Too Many Requests" ELSE ""))]
               ELSE [tk EXCEPT !.pc = "sleep",
                               !.timer = Val(r.sleep) * TicksPerSec]
          [] Handler(e) = "known" ->
               IF r.fail_message # NoneVal
               THEN [tk EXCEPT
                       !.pc = "done",
                       !.result = Some(FailedResponse(0, Val(r.fail_message), ""))]
               ELSE [tk EXCEPT !.pc = "sleep",
                               !.timer = Val(r.sleep) * TicksPerSec]
          [] OTHER -> HandleBaseException(tk, e)

\* ------------------------------------------------------- session lifecycle
\* the is_running property
is_running == session # NoneVal /\ Val(session) \notin closed

\* A start() that never creates a session.
StartedSessionKept == session

\* start(): a no-op when running, else a new ClientSession
StartedSession == IF is_running THEN session ELSE Some(opened + 1)

StartedCount == IF is_running THEN opened ELSE opened + 1

\* ------------------------------------------------------------ the limiter
\* AsyncLimiter(rate_limit, 1) is a leaky bucket of capacity rate_limit that
\* drains rate_limit permits per second; level counts 1/TicksPerSec permits.
Capacity == Val(cfg.rate_limit) * TicksPerSec

\* has_capacity(1) after the leak up to now
has_capacity == level + TicksPerSec <= Capacity

Ages == 0..(TicksPerSec - 1)

NoRecent == [a \in Ages |-> 0]

Max(a, b) == IF a >= b THEN a ELSE b

\* -------------------------------------------------------------- _request
\* url.startswith(base)
StartsWith(url, base) ==
    Len(base) <= Len(url) /\ SubSeq(url, 1, Len(base)) = base

\* A resolution that prefixes every url.
ResolveUrlPrefixed(url) == cfg.base_url \o url

\* the effective URL
ResolveUrl(url) ==
    IF StartsWith(url, cfg.base_url) THEN url ELSE cfg.base_url \o url

\* the effective per-call flag
ResolveLimit(flag) == IF flag = NoneVal THEN use_request_limit ELSE Val(flag)

PublicMethods == {"get", "post", "put", "patch", "delete", "request"}

\* the method string each public method hands to _request; request() passes
\* its caller's
MethodOf(api, method) ==
    CASE api = "get" -> "GET"
      [] api = "post" -> "POST"
      [] api = "put" -> "PUT"
      [] api = "patch" -> "PATCH"
      [] api = "delete" -> "DELETE"
      [] OTHER -> method

\* self.session.request(...) of one attempt: on a missing or closed session
\* the call raises inside the try block (AttributeError on None, aiohttp's
\* RuntimeError on a closed session); else the network call is in flight.
NetCall(tk, h, sess) ==
    IF sess = NoneVal \/ Val(sess) \in closed
    THEN LET e  == Exc(IF sess = NoneVal THEN "AttributeError"
                       ELSE "RuntimeError", 0)
             nt == Handle(tk, e)
         IN  [task |-> nt, hist |-> Failed(h, e, nt), acquired |-> FALSE]
    ELSE [task |-> [tk EXCEPT !.pc = "net"],
          hist |-> [h EXCEPT !.attempts = @ + 1, !.on = sess],
          acquired |-> FALSE]

\* The top of one loop iteration: `async with (self.limiter if
\* use_request_limit else nullcontext())`, then the network call.  `async
\* with None` raises TypeError inside the try block.  A limiter with capacity
\* admits the caller without suspending it; else the caller waits in acquire().
Enter(tk, h, sess) ==
    IF tk.use_request_limit
    THEN IF ~HasLimiter
         THEN LET e  == Exc("TypeError", 0)
                  nt == Handle(tk, e)
              IN  [task |-> nt, hist |-> Failed(h, e, nt), acquired |-> FALSE]
         ELSE IF has_capacity
         THEN [NetCall(tk, [h EXCEPT !.permits = @ + 1], sess)
                 EXCEPT !.acquired = TRUE]
         ELSE [task |-> [tk EXCEPT !.pc = "gate"], hist |-> h,
               acquired |-> FALSE]
    ELSE NetCall(tk, h, sess)

\* The effect of an iteration's beginning on the caller and the limiter.
Begin(t, out) ==
    /\ task' = [task EXCEPT ![t] = out.task]
    /\ hist' = [hist EXCEPT ![t] = out.hist]
    /\ level' = IF out.acquired THEN level + TicksPerSec ELSE level
    /\ recent' = IF out.acquired /\ out.task.pc = "net"
                 THEN [recent EXCEPT ![0] = @ + 1] ELSE recent

\* A _request that creates a session without testing is_running first.
CallAlwaysStarts(t, api, method, url, flag) ==
    /\ task[t].pc = "idle"
    /\ session' = Some(opened + 1)
    /\ opened' = opened + 1
    /\ Begin(t, Enter([IdleTask EXCEPT
                         !.method = MethodOf(api, method),
                         !.url = ResolveUrl(url),
                         !.use_request_limit = ResolveLimit(flag),
                         !.attempt = 1,
                         !.scopes = task[t].scopes],
                      [NoHist EXCEPT !.api = api, !.flag = flag,
                                     !.prev = hist[t].api, !.raw = url,
                                     !.fresh = Some(opened + 1)],
                      Some(opened + 1)))
    /\ UNCHANGED <<args, made, cfg, closed>>

\* A public method is called: _request up to its first suspension.
Call(t, api, method, url, flag) ==
    /\ task[t].pc = "idle"
    /\ session' = StartedSession
    /\ opened' = StartedCount
    /\ Begin(t, Enter([IdleTask EXCEPT
                         !.method = MethodOf(api, method),
                         !.url = ResolveUrl(url),
                         !.use_request_limit = ResolveLimit(flag),
                         !.attempt = 1,
                         !.scopes = task[t].scopes],
                      [NoHist EXCEPT !.api = api, !.flag = flag,
                                     !.prev = hist[t].api, !.raw = url,
                                     !.fresh = IF is_running THEN NoneVal
                                               ELSE StartedSession],
                      StartedSession))
    /\ UNCHANGED <<args, made, cfg, closed>>

\* A caller waiting in limiter.acquire() is admitted.
Acquire(t) ==
    /\ task[t].pc = "gate"
    /\ has_capacity
    /\ Begin(t, [NetCall(task[t], [hist[t] EXCEPT !.permits = @ + 1], session)
                   EXCEPT !.acquired = TRUE])
    /\ UNCHANGED <<args, made, cfg, session, closed, opened>>

\* What the transport can answer to one network call: an exception while
\* connecting or following redirects (no response yet), an exception while the
\* body is read, a non-2xx status, an undecodable body, or a decoded payload.
Outcome(stage, cls, status, payload) ==
    [stage |-> stage, cls |-> cls, status |-> status, payload |-> payload]

Outcomes ==
    {Outcome("connect", c, 0, EmptyDict) :
        c \in {"TimeoutError", "ConnectionTimeoutError",
               "ClientConnectionError", "RuntimeError"}}
    \cup {Outcome("connect", "TooManyRedirects", 302, EmptyDict)}
    \cup {Outcome("text", "ClientPayloadError", 0, EmptyDict)}
    \cup {Outcome("status", "ClientResponseError", s, EmptyDict) : s \in {429, 500}}
    \cup {Outcome("json", "JSONDecodeError", 0, EmptyDict),
          Outcome("json", "ContentTypeError", 200, EmptyDict)}
    \cup {Outcome("ok", "", 200, p) :
            p \in {EmptyDict, [k \in {"id"} |-> IntV(7)],
                   [k \in {"error"} |-> StrV("x")]}}

\* response.reason and the body text of a response with this status
ReasonOf(status) ==
    CASE status = 200 -> "OK"
      [] status = 429 -> "Too Many Requests"
      [] status = 500 -> "Internal Server Error"
      [] OTHER -> ""

BodyOf(status) == IF status = 200 THEN "ok-body" ELSE "err-body"

\* A success Response that is marked as an error when an earlier attempt of
\* the call had failed.
SuccessResponseMarked(tk, o, order) ==
    PostInit(o.status, Val(tk.text), Some(o.payload), NoneVal,
             ReasonOf(o.status), tk.attempt > 1, order)

\* The Response of a 2xx answer with a decoded payload, built from the
\* response at hand alone.
SuccessResponse(tk, o, order) ==
    PostInit(o.status, Val(tk.text), Some(o.payload), NoneVal,
             ReasonOf(o.status), FALSE, order)

\* The network call of the current attempt completes with outcome o: the rest
\* of the try block and, on an exception, the except clause that catches it.
Respond(t, o) ==
    /\ task[t].pc = "net"
    /\ LET tk == IF o.stage \in {"status", "json", "ok"}
                 THEN [task[t] EXCEPT !.text = Some(BodyOf(o.status))]
                 ELSE task[t]
       IN  IF o.stage = "ok"
           THEN /\ \E order \in KeyOrders :
                     task' = [task EXCEPT ![t] =
                                [tk EXCEPT
                                   !.pc = "done",
                                   !.result = Some(SuccessResponse(
                                                     tk, o, order))]]
                /\ hist' = [hist EXCEPT ![t].outcome = "success",
                                        ![t].got = Some(o)]
           ELSE LET e  == Exc(o.cls, o.status)
                    nt == Handle(tk, e)
                IN  /\ task' = [task EXCEPT ![t] = nt]
                    /\ hist' = [hist EXCEPT ![t] = Failed(@, e, nt)]
    /\ UNCHANGED <<args, made, cfg, session, closed, opened, level, recent>>

\* A loop whose retries go to the network without entering the gate again.
WakeUngated(t) ==
    /\ task[t].pc = "sleep"
    /\ task[t].timer = 0
    /\ Begin(t, NetCall([task[t] EXCEPT !.attempt = @ + 1], hist[t], session))
    /\ UNCHANGED <<args, made, cfg, session, closed, opened>>

\* asyncio.sleep() of _retry is over: _retry returns None and the loop goes
\* on with the next attempt.
Wake(t) ==
    /\ task[t].pc = "sleep"
    /\ task[t].timer = 0
    /\ Begin(t, Enter([task[t] EXCEPT !.attempt = @ + 1], hist[t], session))
    /\ UNCHANGED <<args, made, cfg, session, closed, opened>>

\* One tick of time passes: the bucket leaks, sleeps get shorter, and the
\* recorded starts age.
Tick ==
    /\ \/ level > 0
       \/ recent # NoRecent
       \/ \E t \in Tasks : task[t].timer > 0
    /\ level' = IF HasLimiter THEN Max(level - Val(cfg.rate_limit), 0) ELSE level
    /\ recent' = [a \in Ages |-> IF a = 0 THEN 0 ELSE recent[a - 1]]
    /\ task' = [t \in Tasks |->
                  IF task[t].timer > 0
                  THEN [task[t] EXCEPT !.timer = @ - 1] ELSE task[t]]
    /\ UNCHANGED <<args, made, cfg, session, closed, opened, hist>>

\* ------------------------------------------------- lifecycle operations
\* What a caller's bookkeeping is reset to when it makes the operation api.
Op(t, api) == [NoHist EXCEPT !.api = api, !.prev = hist[t].api]

\* start(): a no-op on a running client, else a new ClientSession.  It has no
\* suspension point.
Start(t) ==
    /\ task[t].pc = "idle"
    /\ session' = StartedSession
    /\ opened' = StartedCount
    /\ hist' = [hist EXCEPT ![t] =
                 [Op(t, "start") EXCEPT
                    !.fresh = IF is_running THEN NoneVal ELSE StartedSession]]
    /\ UNCHANGED <<args, made, cfg, closed, level, recent, task>>

\* A stop() without the is_running test: on a client without a session,
\* self.session.close() raises AttributeError.
StopFromUnguarded(t, h, suspends) ==
    /\ closed' = closed \cup session
    /\ session' = IF suspends /\ session # NoneVal THEN session ELSE NoneVal
    /\ task' = [task EXCEPT
                 ![t].pc = IF session = NoneVal THEN "raised"
                           ELSE IF suspends THEN "closing" ELSE "idle",
                 ![t].raised = IF session = NoneVal
                               THEN Some("AttributeError") ELSE @,
                 ![t].scopes = IF h.api = "aexit" /\ ~(session # NoneVal /\ suspends)
                               THEN @ - 1 ELSE @]
    /\ hist' = [hist EXCEPT ![t] = h]
    /\ UNCHANGED <<args, made, cfg, opened, level, recent>>

\* stop(), or the stop() of __aexit__, up to the suspension of
\* `await self.session.close()`: a no-op on a client that is not running;
\* else the session is closed, and the coroutine either is suspended inside
\* close() (suspends) or runs on to `self.session = None`.
StopFrom(t, h, suspends) ==
    /\ closed' = IF is_running THEN closed \cup session ELSE closed
    /\ session' = IF is_running /\ ~suspends THEN NoneVal ELSE session
    /\ task' = [task EXCEPT
                 ![t].pc = IF is_running /\ suspends THEN "closing" ELSE "idle",
                 ![t].scopes = IF h.api = "aexit" /\ ~(is_running /\ suspends)
                               THEN @ - 1 ELSE @]
    /\ hist' = [hist EXCEPT ![t] =
                 [h EXCEPT !.outcome = IF is_running THEN "" ELSE "noop"]]
    /\ UNCHANGED <<args, made, cfg, opened, level, recent>>

Stop(t, suspends) ==
    /\ task[t].pc = "idle"
    /\ StopFrom(t, Op(t, "stop"), suspends)

\* stop() resumes after session.close(): self.session = None
StopEnd(t) ==
    /\ task[t].pc = "closing"
    /\ session' = NoneVal
    /\ task' = [task EXCEPT
                 ![t].pc = "idle",
                 ![t].scopes = IF hist[t].api = "aexit" THEN @ - 1 ELSE @]
    /\ UNCHANGED <<args, made, cfg, closed, opened, level, recent, hist>>

\* __aenter__: self.session = aiohttp.ClientSession(**self.config)
AEnter(t) ==
    /\ task[t].pc = "idle"
    /\ task[t].scopes < MaxScopes
    /\ session' = Some(opened + 1)
    /\ opened' = opened + 1
    /\ task' = [task EXCEPT ![t].scopes = @ + 1]
    /\ hist' = [hist EXCEPT ![t] =
                 [Op(t, "aenter") EXCEPT !.fresh = Some(opened + 1),
                    !.outcome = IF is_running THEN "was running" ELSE ""]]
    /\ UNCHANGED <<args, made, cfg, closed, level, recent>>

\* __aexit__, called when the body of the block has ended, normally or by
\* an exception (body_raised): stop() if the session is there and not closed.
AExit(t, body_raised, suspends) ==
    /\ task[t].pc = "idle"
    /\ task[t].scopes > 0
    /\ StopFrom(t, [Op(t, "aexit") EXCEPT !.body_raised = body_raised],
                suspends)

\* The caller takes what _request returned or raised and goes on.
Return(t) ==
    /\ task[t].pc \in {"done", "raised", "cancelled"}
    /\ task' = [task EXCEPT ![t] = [IdleTask EXCEPT !.scopes = task[t].scopes]]
    /\ UNCHANGED <<args, made, cfg, session, closed, opened, level, recent,
                   hist>>

\* The task running _request is cancelled at one of its suspension points:
\* CancelledError is raised there.  In the limiter's acquire() and in the
\* network call it is raised inside the try block, where the except clauses
\* see it; in asyncio.sleep() of _retry it is raised inside an except
\* clause, which no clause of the same try statement covers.
Cancel(t) ==
    /\ task[t].pc \in {"gate", "net", "sleep"}
    /\ LET e  == Exc("CancelledError", 0)
           h  == [hist[t] EXCEPT !.cancelled = task[t].pc]
           nt == IF task[t].pc = "sleep"
                 THEN [task[t] EXCEPT !.pc = "cancelled", !.timer = 0,
                                      !.raised = Some("CancelledError")]
                 ELSE Handle(task[t], e)
       IN  /\ task' = [task EXCEPT ![t] = nt]
           /\ hist' = [hist EXCEPT ![t] =
                        IF task[t].pc = "sleep" THEN h ELSE Failed(h, e, nt)]
    /\ UNCHANGED <<args, made, cfg, session, closed, opened, level, recent>>

\* ---------------------------------------------- executor: specification
BaseUrl == <<"h", "o">>

Urls == {<<"/", "i">>}

Configs ==
    [base_url : {BaseUrl},
     rate_limit : {NoneVal, Some(1)},
     max_attempts : 1..MaxAttempts,
     retry_timeout : {NoneVal, Some(0), Some(1)},
     allow_timeout_error_retry : BOOLEAN,
     allow_status_error_retry : BOOLEAN,
     allow_http_error_retry : BOOLEAN,
     allow_json_decode_error_retry : BOOLEAN,
     allow_too_many_reqs_retry : BOOLEAN]

\* The dataclass defaults: no construction is under way.
IdleArgs ==
    [code |-> 0, text |-> "", data |-> NoneVal, error |-> NoneVal,
     reason |-> "", _is_error |-> FALSE]

\* A constructed client that nobody has used yet.
FreshClient ==
    /\ session = NoneVal
    /\ closed = {}
    /\ opened = 0
    /\ level = 0
    /\ recent = NoRecent
    /\ task = [t \in Tasks |-> IdleTask]
    /\ hist = [t \in Tasks |-> NoHist]

Init ==
    /\ args = IdleArgs
    /\ made = NoneVal
    /\ cfg \in Configs
    /\ FreshClient

\* One caller makes one call.  The six public methods differ in the method
\* string they pass alone, so the executor is explored through get().
Callers == {"t1"}

Apis == {"get"}

Flags == {NoneVal, Some(TRUE), Some(FALSE)}

Next ==
    \/ \E t \in Callers, api \in Apis, url \in Urls, flag \in Flags :
            Call(t, api, "", url, flag)
    \/ \E t \in Callers : Acquire(t)
    \/ \E t \in Callers, o \in Outcomes : Respond(t, o)
    \/ \E t \in Callers : Wake(t)
    \/ Tick

Spec == Init /\ [][Next]_vars

\* ------------------------------------------------- executor: properties
\* the payload holds a non-empty value under one of the three error keys
PayloadHasError(data) ==
    /\ data # NoneVal
    /\ \E k \in ErrorKeys \cap DOMAIN Val(data) : Truthy(Val(data)[k])

\* the caller is inside a request
InCall(t) == task[t].pc # "idle" /\ hist[t].api \in PublicMethods

Finished(t) == task[t].pc \in {"done", "raised"}

\* e is caught by one of the two except clauses that consult _retry
Classified(e) == Handler(e) # "base"

\* e passes _retry's isinstance test
Retryable(e) == IsInstance(e, retryable_errors)

\* The flag the constructor's retryable_errors list ties to the class of e
\* (a 429 answers to allow_too_many_reqs_retry as well as to the status flag).
OwnFlag(e) ==
    CASE e.cls \in {"JSONDecodeError", "ContentTypeError"} ->
           cfg.allow_json_decode_error_retry
      [] e.cls \in {"TimeoutError", "ConnectionTimeoutError",
                    "ClientConnectionError"} ->
           cfg.allow_timeout_error_retry
      [] e.cls \in {"ClientResponseError", "TooManyRedirects"} ->
           \/ cfg.allow_status_error_retry
           \/ e.status = 429 /\ cfg.allow_too_many_reqs_retry
      [] OTHER -> cfg.allow_http_error_retry

\* the text of the failed Response that carries fail message msg for e
FailText(tk, e, msg) ==
    IF Handler(e) = "status" THEN msg \o ". text: " \o Val(tk.text) ELSE msg

\* C1: every public method returns a Response and lets no exception reach the
\* caller; a call that ends on a failure, of whatever kind and at whatever
\* place of the attempt, returns a Response with is_error = true.
C1_AlwaysReturnsResponse ==
    \A t \in Tasks :
        /\ task[t].pc # "raised"
        /\ task[t].raised = NoneVal
        /\ hist[t].outcome = "failure" =>
             /\ task[t].pc = "done"
             /\ is_error(Val(task[t].result))

\* C2: a classified error that is not retryable ends the call at once: one
\* failed Response, no wait for that failure, no attempt after it (one network
\* attempt and no wait at all when it is the first attempt's).
C2_NonRetryableStopsAtOnce ==
    \A t \in Tasks :
        LET h == hist[t]
        IN  (/\ h.lastExc # NoneVal
             /\ Classified(Val(h.lastExc))
             /\ ~Retryable(Val(h.lastExc))) =>
                /\ task[t].pc = "done"
                /\ is_error(Val(task[t].result))
                /\ h.attempts = task[t].attempt
                /\ h.waits = h.attempts - 1

\* C3: when every attempt fails with the same retryable error and
\* max_attempts = N, the call makes exactly N network attempts and N-1 waits
\* and returns a failed Response whose message reports exhaustion N/N.
C3_ExhaustsAfterMaxAttempts ==
    \A t \in Tasks :
        LET h == hist[t]
            e == Val(h.lastExc)
        IN  (/\ Finished(t)
             /\ h.outcome = "failure"
             /\ h.uniform
             /\ Classified(e)
             /\ Retryable(e)) =>
                /\ task[t].pc = "done"
                /\ h.attempts = cfg.max_attempts
                /\ h.waits = cfg.max_attempts - 1
                /\ is_error(Val(task[t].result))
                /\ Val(task[t].result).text =
                     FailText(task[t], e,
                              ExhaustedMessage(e, cfg.max_attempts,
                                               cfg.max_attempts, task[t].method))

\* C4: an error whose own flag is off is terminal on its first occurrence,
\* with a non-retryable message, whatever the other flags are.
C4_OnlyOwnFlagRetries ==
    \A t \in Tasks :
        LET h == hist[t]
            e == Val(h.lastExc)
        IN  (/\ h.lastExc # NoneVal
             /\ Classified(e)
             /\ ~OwnFlag(e)) =>
                /\ Finished(t)
                /\ task[t].pc = "done" =>
                     Val(task[t].result).text =
                       FailText(task[t], e, NonRetryableMessage(e, task[t].method))

\* C5: with allow_too_many_reqs_retry on and the status flag off, a 429 on an
\* attempt before the last does not end the call: a wait and a further
\* attempt follow.
C5_RateLimitedIsRetried ==
    \A t \in Tasks :
        (/\ cfg.allow_too_many_reqs_retry
         /\ ~cfg.allow_status_error_retry
         /\ hist[t].lastExc = Some(Exc("ClientResponseError", 429))
         /\ task[t].attempt < cfg.max_attempts) =>
            hist[t].outcome # "failure"

\* C6: an exception of an attempt that none of the named families covers ends
\* the call on the spot, for every retry configuration and attempt number: a
\* failed Response carrying the exception's description, no wait for it, and
\* no further attempt.
C6_UnclassifiedIsTerminal ==
    \A t \in Tasks :
        LET h == hist[t]
            e == Val(h.lastExc)
        IN  (h.lastExc # NoneVal /\ ~Classified(e)) =>
                /\ task[t].pc = "done"
                /\ h.outcome = "failure"
                /\ is_error(Val(task[t].result))
                /\ Val(task[t].result).text =
                     BaseExceptionMessage(e, task[t].method)
                /\ Val(task[t].result).error =
                     Some(BaseExceptionMessage(e, task[t].method))
                /\ h.waits = task[t].attempt - 1
                /\ h.attempts <= task[t].attempt

\* C6 happens: with every retry flag on and attempts left, a second attempt
\* raised an unclassified exception from its network call and the call ended.
C6_Witness ==
    \E t \in Tasks :
        /\ hist[t].lastExc = Some(Exc("RuntimeError", 0))
        /\ cfg.allow_http_error_retry /\ cfg.allow_status_error_retry
        /\ cfg.allow_timeout_error_retry /\ cfg.allow_json_decode_error_retry
        /\ task[t].attempt = 2
        /\ hist[t].attempts = 2
        /\ cfg.max_attempts > 2
        /\ task[t].pc = "done"

\* C8: the per-call flag overrides the client's default both ways: with
\* False on a limited client the network call goes out and no permit is
\* taken; with True on an unlimited client the network call still goes out;
\* with no per-call value the gate is used iff rate_limit is configured.
C8_PerCallFlagOverrides ==
    \A t \in Tasks :
        LET h == hist[t]
        IN  task[t].pc \notin {"idle", "gate"} =>
                /\ h.flag = Some(FALSE) => h.permits = 0 /\ h.attempts >= 1
                /\ h.flag = Some(TRUE) => h.attempts >= 1
                /\ h.flag = NoneVal =>
                     /\ h.attempts >= 1
                     /\ h.permits = IF HasLimiter THEN h.attempts ELSE 0

\* the seconds _retry sleeps after failed attempt k
BackoffSeconds(k) ==
    IF cfg.retry_timeout # NoneVal THEN Val(cfg.retry_timeout) ELSE 2 ^ k

\* C17: after a failed attempt k < max_attempts with a retryable error the
\* call waits, for retry_timeout seconds when that is set (0 included) and
\* for 2^k seconds when it is not, and goes on only when the wait is over.
C17_BackoffDuration ==
    [][\A t \in Tasks :
         /\ (task[t].pc = "net" /\ task'[t].pc # "net"
               /\ hist'[t].outcome # "success"
               /\ Classified(Val(hist'[t].lastExc))
               /\ Retryable(Val(hist'[t].lastExc))
               /\ task[t].attempt < cfg.max_attempts) =>
                 task'[t].pc = "sleep"
         /\ (task[t].pc # "sleep" /\ task'[t].pc = "sleep") =>
               /\ task'[t].attempt = task[t].attempt
               /\ task'[t].timer = BackoffSeconds(task[t].attempt) * TicksPerSec
         /\ (task[t].pc = "sleep" /\ task'[t].pc # "sleep") =>
               task[t].timer = 0]_vars

\* C17 happens: with retry_timeout unset, the second attempt has failed and
\* the call has just begun its wait of 4 seconds.
C17_Witness ==
    \E t \in Tasks :
        /\ cfg.retry_timeout = NoneVal
        /\ task[t].pc = "sleep" /\ task[t].attempt = 2
        /\ task[t].timer = 4 * TicksPerSec
        /\ hist[t].waits = 2

\* C18: with the effective flag true every attempt takes one permit before
\* its network call and the wait between attempts takes none, so a call
\* that has made m attempts has taken m permits; with the flag false it
\* takes none.
C18_PermitPerAttempt ==
    \A t \in Tasks :
        LET h  == hist[t]
            tk == task[t]
        IN  InCall(t) =>
              /\ (tk.use_request_limit /\ HasLimiter) =>
                    /\ h.permits = IF tk.pc = "gate" THEN tk.attempt - 1
                                   ELSE tk.attempt
                    /\ h.attempts = h.permits
              /\ tk.use_request_limit => h.attempts <= h.permits
              /\ ~tk.use_request_limit => h.permits = 0

\* C18 happens: a gated call's second attempt is in flight after one wait,
\* with two permits taken.
C18_Witness ==
    \E t \in Tasks :
        /\ task[t].use_request_limit /\ HasLimiter
        /\ task[t].pc = "net" /\ task[t].attempt = 2
        /\ hist[t].waits = 1 /\ hist[t].permits = 2 /\ hist[t].attempts = 2

\* C19: a call that ends on a 429 status error returns a Response whose
\* reason is "Too Many Requests" when allow_too_many_reqs_retry is on, and
\* not that reason when it is off; in the latter case the 429 is retried
\* only if the status flag is on.
C19_TooManyRequestsReason ==
    \A t \in Tasks :
        LET h == hist[t]
        IN  (/\ task[t].pc = "done"
             /\ h.outcome = "failure"
             /\ h.lastExc = Some(Exc("ClientResponseError", 429))) =>
               /\ cfg.allow_too_many_reqs_retry =>
                     Val(task[t].result).reason = "Too Many Requests"
               /\ ~cfg.allow_too_many_reqs_retry =>
                     /\ Val(task[t].result).reason # "Too Many Requests"
                     /\ (h.uniform /\ ~cfg.allow_status_error_retry) =>
                           h.waits = 0 /\ h.attempts = 1

\* C21: when attempt k <= max_attempts is answered with a 2xx status and a
\* decodable payload without a non-empty error key, after k-1 attempts that
\* failed with retryable errors, the call returns after exactly k attempts a
\* Response with is_error false whose code, text, data and reason are those
\* of attempt k's response, and makes no further attempt.
C21_RetryThenSuccess ==
    \A t \in Tasks :
        LET h == hist[t]
            o == Val(h.got)
            r == Val(task[t].result)
        IN  (h.outcome = "success" /\ ~PayloadHasError(Some(o.payload))) =>
              /\ task[t].pc = "done"
              /\ task[t].attempt <= cfg.max_attempts
              /\ h.attempts = task[t].attempt
              /\ h.waits = task[t].attempt - 1
              /\ ~is_error(r)
              /\ r.code = o.status
              /\ r.text = BodyOf(o.status)
              /\ r.data = o.payload
              /\ r.reason = ReasonOf(o.status)
              /\ r.error = NoneVal
              /\ ~r._is_error

\* C21 happens: two attempts failed with a retryable error and the third
\* one's answer, a payload without error keys, was returned.
C21_Witness ==
    \E t \in Tasks :
        /\ hist[t].outcome = "success"
        /\ task[t].attempt = 3 /\ hist[t].waits = 2
        /\ hist[t].lastExc # NoneVal
        /\ Val(hist[t].got).payload = [k \in {"id"} |-> IntV(7)]
        /\ ~is_error(Val(task[t].result))

\* The executor under fair scheduling: a caller that can be admitted by the
\* limiter is admitted, a network call in flight is answered, a sleep that is
\* over ends, and time goes on.
Fairness ==
    /\ \A t \in Callers : WF_vars(Acquire(t))
    /\ \A t \in Callers : WF_vars(\E o \in Outcomes : Respond(t, o))
    /\ \A t \in Callers : WF_vars(Wake(t))
    /\ WF_vars(Tick)

SpecFair == Spec /\ Fairness

\* C22: a call that has begun returns a Response in the end, whatever its
\* attempts' outcomes are.
C22_EventuallyReturns ==
    \A t \in Callers : InCall(t) ~> task[t].pc = "done"

\* ------------------------------------------ rate limiting: specification
\* Clients with a rate limit, shared by three concurrent callers of
\* request(); attempts succeed or time out, and a timed-out attempt is
\* retried at once.
RateConfigs ==
    {[DefaultConfig EXCEPT !.base_url = BaseUrl, !.rate_limit = Some(r),
                           !.max_attempts = 2, !.retry_timeout = Some(0)] :
        r \in 1..MaxRate}

RateOutcomes ==
    {Outcome("ok", "", 200, EmptyDict),
     Outcome("connect", "TimeoutError", 0, EmptyDict)}

InitRate ==
    /\ args = IdleArgs
    /\ made = NoneVal
    /\ cfg \in RateConfigs
    /\ FreshClient

NextRate ==
    \/ \E t \in Tasks, url \in Urls : Call(t, "request", "POST", url, NoneVal)
    \/ \E t \in Tasks : Acquire(t)
    \/ \E t \in Tasks, o \in RateOutcomes : Respond(t, o)
    \/ \E t \in Tasks : Wake(t)
    \/ Tick

SpecRate == InitRate /\ [][NextRate]_vars

RECURSIVE SumUpTo(_, _)
SumUpTo(f, a) == IF a < 0 THEN 0 ELSE f[a] + SumUpTo(f, a - 1)

\* the gated network calls started less than one second ago
StartsInWindow == SumUpTo(recent, TicksPerSec - 1)

\* C7: with rate limiting active, no more than rate_limit network calls are
\* started within any one-second window, over all concurrent calls and their
\* retries.
C7_WindowBound == HasLimiter => StartsInWindow <= Val(cfg.rate_limit)

\* ------------------------------------------- normaliser: specification
PayloadKeys == ErrorKeys \cup {"id"}

PayloadValues == {StrV(""), StrV("x"), StrV("y"), IntV(0), IntV(7)}

Payloads == UNION {[D -> PayloadValues] : D \in SUBSET PayloadKeys}

ArgSpace ==
    [code : {200, 500}, text : {"", "body"},
     data : {NoneVal} \cup {Some(p) : p \in Payloads},
     error : {NoneVal, Some(""), Some("boom")},
     reason : {"OK"}, _is_error : BOOLEAN]

InitResp ==
    /\ args \in ArgSpace
    /\ made = NoneVal
    /\ cfg = DefaultConfig
    /\ FreshClient

\* One construction: the dataclass __init__ followed by __post_init__.
Construct ==
    /\ made = NoneVal
    /\ \E order \in KeyOrders :
         made' = Some(PostInit(args.code, args.text, args.data, args.error,
                               args.reason, args._is_error, order))
    /\ UNCHANGED <<args, clientVars>>

NextResp == Construct

SpecResp == InitResp /\ [][NextResp]_vars

\* ------------------------------------------------ normaliser: properties
\* C9: a constructed Response has is_error true exactly when it was forced
\* (_is_error), or its error argument is non-empty, or its payload holds a
\* non-empty value under at least one of error, errors, error_message.
C9_IsErrorIffAnySignal ==
    made # NoneVal =>
        (is_error(Val(made)) <=>
            \/ args._is_error
            \/ BoolOpt(args.error)
            \/ PayloadHasError(args.data))

\* C10: a payload with a non-empty value x under the key error gives
\* is_error = true and an error message equal to str(x), whatever the status
\* code and whatever the payload holds under errors and error_message.
C10_ErrorKeyWins ==
    (/\ made # NoneVal
     /\ args.data # NoneVal
     /\ "error" \in DOMAIN Val(args.data)
     /\ Truthy(Val(args.data)["error"])) =>
        /\ is_error(Val(made))
        /\ Val(made).error = Some(PyStr(Val(args.data)["error"]))


\* ------------------------------------------- lifecycle: specification
\* Two callers share one client without a rate limit and mix requests, which
\* the transport answers, with start(), stop() and `async with client` blocks.
LifeCallers == {"t1", "t2"}

LifeConfigs == {[DefaultConfig EXCEPT !.base_url = BaseUrl, !.max_attempts = 1]}

LifeOutcomes == {Outcome("ok", "", 200, EmptyDict)}

InitLife ==
    /\ args = IdleArgs
    /\ made = NoneVal
    /\ cfg \in LifeConfigs
    /\ FreshClient

NextLife ==
    \/ /\ opened < MaxSessions
       /\ \E t \in LifeCallers, url \in Urls : Call(t, "get", "", url, NoneVal)
    \/ opened < MaxSessions /\ \E t \in LifeCallers : Start(t)
    \/ opened < MaxSessions /\ \E t \in LifeCallers : AEnter(t)
    \/ \E t \in LifeCallers, suspends \in BOOLEAN : Stop(t, suspends)
    \/ \E t \in LifeCallers, body_raised, suspends \in BOOLEAN :
          AExit(t, body_raised, suspends)
    \/ \E t \in LifeCallers : StopEnd(t)
    \/ \E t \in LifeCallers : Return(t)
    \/ \E t \in LifeCallers, o \in LifeOutcomes : Respond(t, o)

SpecLife == InitLife /\ [][NextLife]_vars

\* the sessions created for the client and not closed
Live == (1..opened) \ closed

\* --------------------------------------------- lifecycle: properties
\* the step is one of caller t
OwnStep(t) == hist'[t] # hist[t] \/ task'[t] # task[t]

\* the step is one of caller t in which its operation api returns
Returns(t, api) ==
    /\ OwnStep(t)
    /\ hist'[t].api = api
    /\ task[t].pc \in {"idle", "closing"}
    /\ task'[t].pc = "idle"

\* some caller is suspended inside session.close()
Closing == \E t \in Tasks : task[t].pc = "closing"

\* C11: stop() is idempotent: every stop() returns without an error and
\* leaves the client not running; a stop() of a client that is not running
\* (never started, or just stopped) changes nothing; a stop() that closed the
\* session leaves the client without a session.
C11_StopIdempotent ==
    [][\A t \in Tasks :
         /\ (OwnStep(t) /\ hist'[t].api = "stop") =>
               /\ task'[t].pc \in {"idle", "closing"}
               /\ task'[t].raised = NoneVal
         /\ Returns(t, "stop") =>
               /\ ~is_running'
               /\ (task[t].pc = "idle" /\ ~is_running) =>
                     <<session, closed, opened>>' = <<session, closed, opened>>
               /\ is_running \/ task[t].pc = "closing" => session' = NoneVal
               /\ session' = NoneVal \/ Closing']_vars

\* C11 happens: a caller's second stop() in a row, on a client that had been
\* started, has returned as a no-op.
C11_Witness ==
    \E t \in Tasks :
        /\ hist[t].api = "stop" /\ hist[t].prev = "stop"
        /\ hist[t].outcome = "noop"
        /\ task[t].pc = "idle"
        /\ opened >= 1 /\ session = NoneVal /\ Live = {}

\* C12: entering `async with client` on a running client keeps the session
\* that is there and creates no other; on a client that is not running it
\* starts one.
C12_ScopeEntryKeepsSession ==
    [][\A t \in Tasks :
         Returns(t, "aenter") =>
           /\ is_running'
           /\ is_running => session' = session /\ opened' = opened]_vars

\* C13: when an `async with client` block has been left, by the body's end
\* or by its exception, the client is not running and none of the sessions
\* created for it is open.
C13_ScopeExitStops ==
    [][\A t \in Tasks :
         Returns(t, "aexit") => ~is_running' /\ Live' = {}]_vars

\* C14: a request made on a client that is not running (never started, or
\* stopped) creates a new live session, which makes the client running, and
\* the first attempt's network call goes out on that session; this holds
\* after any number of earlier starts and stops.
C14_StoppedClientRestarts ==
    [][\A t \in Tasks :
         (OwnStep(t) /\ task[t].pc = "idle" /\ hist'[t].api = "get"
            /\ ~is_running) =>
           /\ is_running'
           /\ session' = Some(opened + 1)
           /\ opened' = opened + 1
           /\ opened + 1 \notin closed'
           /\ hist'[t].fresh = session'
           /\ task'[t].pc = "net"
           /\ task'[t].attempt = 1
           /\ hist'[t].on = session']_vars

\* C14 happens: a caller stopped the client, which had been started, and its
\* next request is in flight on a session created for it.
C14_Witness ==
    \E t \in Tasks :
        /\ hist[t].api = "get" /\ hist[t].prev = "stop"
        /\ hist[t].fresh # NoneVal /\ Val(hist[t].fresh) >= 2
        /\ Val(hist[t].fresh) - 1 \in closed
        /\ task[t].pc = "net" /\ hist[t].on = hist[t].fresh
        /\ session = hist[t].fresh /\ is_running

\* C16: at most one session created for the client is open at any time.
C16_OneLiveSession == Cardinality(Live) <= 1

\* C27: stop() never discards a session it did not close: when a stop()
\* that was suspended inside session.close() resumes and finds the client
\* running, on a session that a start() or a request of another caller
\* installed meanwhile, that session is still the client's session when the
\* stop() has returned.
C27_StopKeepsFreshSession ==
    [][\A t \in Tasks :
         (task[t].pc = "closing" /\ task'[t].pc = "idle" /\ is_running) =>
            session' = session /\ is_running']_vars

\* ---------------------------------------- cancellation: specification
\* Two callers share a rate-limited client, so that one of them waits at the
\* gate; attempts succeed or time out and are retried, and a caller may be
\* cancelled wherever it is suspended.
CancelConfigs ==
    {[DefaultConfig EXCEPT !.base_url = BaseUrl, !.rate_limit = Some(1),
                           !.max_attempts = 2, !.retry_timeout = Some(1)]}

CancelUrls == {<<"/", "i">>, <<"h", "o", "/", "i">>, <<"h">>}

InitCancel ==
    /\ args = IdleArgs
    /\ made = NoneVal
    /\ cfg \in CancelConfigs
    /\ FreshClient

NextCancel ==
    \/ \E t \in LifeCallers, url \in CancelUrls : Call(t, "get", "", url, NoneVal)
    \/ \E t \in LifeCallers : Acquire(t)
    \/ \E t \in LifeCallers, o \in RateOutcomes : Respond(t, o)
    \/ \E t \in LifeCallers : Wake(t)
    \/ \E t \in LifeCallers : Cancel(t)
    \/ Tick

SpecCancel == InitCancel /\ [][NextCancel]_vars

\* ------------------------------------------ cancellation: properties
\* C15: the effective URL of a request is its url argument when that starts
\* with base_url and base_url + url otherwise; resolving it again changes
\* nothing, and a relative url and the same url written out with base_url in
\* front are sent to the same effective URL.
C15_NoDoublePrefix ==
    \A t \in Tasks :
        InCall(t) =>
          /\ task[t].url = IF StartsWith(hist[t].raw, cfg.base_url)
                           THEN hist[t].raw ELSE cfg.base_url \o hist[t].raw
          /\ ResolveUrl(task[t].url) = task[t].url
          /\ \A u \in Tasks :
                (/\ InCall(u)
                 /\ ~StartsWith(hist[u].raw, cfg.base_url)
                 /\ hist[t].raw = cfg.base_url \o hist[u].raw) =>
                    task[t].url = task[u].url

\* C15 happens: one caller requested a relative url, the other the same url
\* with base_url in front, and both requests are under way.
C15_Witness ==
    \E t, u \in Tasks :
        /\ InCall(t) /\ InCall(u)
        /\ hist[u].raw = <<"/", "i">>
        /\ hist[t].raw = cfg.base_url \o hist[u].raw
        /\ cfg.base_url # <<>>
        /\ task[t].url = task[u].url

\* C20: a cancellation of the task that runs a request, wherever the
\* request is suspended (the limiter's wait, the network call, the backoff
\* sleep), comes out of the request as the task's cancellation: no Response
\* is returned and no further attempt is made.
C20_CancellationPropagates ==
    \A t \in Tasks :
        hist[t].cancelled # "" =>
          /\ task[t].pc = "cancelled"
          /\ task[t].raised = Some("CancelledError")
          /\ task[t].result = NoneVal

\* ------------------------------------------ lazy start: specification
\* Three callers share a client that admits one request per second and make
\* requests only, which the transport answers; a request that finds the
\* bucket full waits at the gate.  Between rounds of requests, while no
\* request is under way, the client may be stopped, so that first requests
\* meet a client that was never started and one that was stopped.
LazyConfigs ==
    {[DefaultConfig EXCEPT !.base_url = BaseUrl, !.rate_limit = Some(1),
                           !.max_attempts = 1]}

InitLazy ==
    /\ args = IdleArgs
    /\ made = NoneVal
    /\ cfg \in LazyConfigs
    /\ FreshClient

Quiet == \A t \in Tasks : task[t].pc = "idle"

NextLazy ==
    \/ /\ opened < MaxSessions
       /\ \E t \in Tasks, url \in Urls : Call(t, "get", "", url, NoneVal)
    \/ \E t \in Tasks : Acquire(t)
    \/ \E t \in Tasks, o \in LifeOutcomes : Respond(t, o)
    \/ \E t \in Tasks : Return(t)
    \/ Quiet /\ \E t \in Tasks : Stop(t, FALSE)
    \/ Tick

SpecLazy == InitLazy /\ [][NextLazy]_vars

\* -------------------------------------------- lazy start: properties
\* C25: the lazy start is atomic: the concurrent requests made on a client
\* that was never started or was stopped create one session between them
\* (one session per stopped period, and at most one of the requests under
\* way created a session), the client is running while a request is under
\* way, and every network call of those requests went out on that session.
C25_LazyStartOnce ==
    /\ opened <= Cardinality(closed) + 1
    /\ Cardinality(Live) <= 1
    /\ \A t \in Tasks :
          InCall(t) =>
            /\ is_running
            /\ hist[t].attempts >= 1 => hist[t].on = session
            /\ \A u \in Tasks \ {t} :
                  InCall(u) => hist[t].fresh = NoneVal \/ hist[u].fresh = NoneVal

\* C25 happens: the client was stopped, and two first requests made
\* concurrently since are both in flight on the one session that one of them
\* created.
C25_Witness ==
    \E t \in Tasks : \E u \in Tasks \ {t} :
        /\ closed # {}
        /\ task[t].pc = "net" /\ task[t].attempt = 1
        /\ task[u].pc = "net" /\ task[u].attempt = 1
        /\ hist[t].fresh = session /\ hist[u].fresh = NoneVal
        /\ hist[t].on = session /\ hist[u].on = session
        /\ is_running /\ opened = Cardinality(closed) + 1

\* ------------------------------------- requests and stop: specification
\* Two callers share a rate-limited client, so that one of them waits at the
\* gate; attempts succeed or time out and are retried after a sleep; either
\* caller may stop the client while the other's request is suspended.
NextStopping ==
    \/ /\ opened < MaxSessions
       /\ \E t \in LifeCallers, url \in Urls : Call(t, "get", "", url, NoneVal)
    \/ \E t \in LifeCallers : Acquire(t)
    \/ \E t \in LifeCallers, o \in RateOutcomes : Respond(t, o)
    \/ \E t \in LifeCallers : Wake(t)
    \/ \E t \in LifeCallers : Return(t)
    \/ \E t \in LifeCallers, suspends \in BOOLEAN : Stop(t, suspends)
    \/ \E t \in LifeCallers : StopEnd(t)
    \/ Tick

SpecStopping == InitCancel /\ [][NextStopping]_vars

\* --------------------------------------- requests and stop: properties
\* C26: no attempt goes out on a dead session: when an attempt issues its
\* network call, the client's session is there and not closed and the call
\* is on it; and a request that leaves the limiter's wait or the backoff
\* sleep goes on to a network call on a live session, also when another
\* caller stopped the client meanwhile.
C26_NoDispatchOnDeadSession ==
    [][\A t \in Tasks :
         /\ (OwnStep(t) /\ task[t].pc # "net" /\ task'[t].pc = "net") =>
               is_running' /\ hist'[t].on = session'
         /\ (/\ OwnStep(t)
             /\ task[t].pc \in {"gate", "sleep"}
             /\ task'[t].pc \notin {"gate", "sleep"}) =>
               /\ task'[t].pc = "net"
               /\ is_running'
               /\ hist'[t].on = session']_vars

\* ------------------------------------------------ the src/client variant
\* The client of src/client: max_retries instead of max_attempts, a loop over
\* range(max_retries), and a session created by the constructor.
VariantConfigs ==
    [base_url : {BaseUrl},
     rate_limit : {NoneVal, Some(1)},
     max_retries : 1..MaxAttempts,
     retry_timeout : {NoneVal, Some(0)},
     allow_timeout_error_retry : BOOLEAN,
     allow_status_error_retry : BOOLEAN,
     allow_http_error_retry : BOOLEAN,
     allow_json_decode_error_retry : {FALSE},
     allow_too_many_reqs_retry : BOOLEAN]

\* the variant's retryable_errors
Variant_retryable_errors ==
    (IF cfg.allow_json_decode_error_retry
     THEN {"JSONDecodeError", "ContentTypeError"} ELSE {})
    \cup (IF cfg.allow_timeout_error_retry
          THEN {"TimeoutError", "ConnectionTimeoutError"} ELSE {})
    \cup (IF cfg.allow_status_error_retry THEN {"ClientResponseError"} ELSE {})
    \cup (IF cfg.allow_http_error_retry THEN {"ClientError"} ELSE {})

\* The variant's is_running, `not self.session.closed`: it raises
\* AttributeError when self.session is None.
Variant_is_running ==
    IF session = NoneVal THEN "AttributeError"
    ELSE IF Val(session) \in closed THEN "False" ELSE "True"

\* the except clause of the variant's _request that catches e
Variant_Handler(e) ==
    IF IsInstance(e, {"ClientResponseError"}) THEN "status"
    ELSE IF IsInstance(e, {"JSONDecodeError", "ContentTypeError", "TimeoutError",
                           "ConnectionTimeoutError", "ClientError"}) THEN "known"
    ELSE "base"

Variant_MainMessage(e, method) ==
    e.cls \o " " \o StrExc(e) \o " in " \o method \o ". kwargs: {}"

Variant_ExhaustedMessage(e, n, max, method) ==
    "Failed after retrying " \o ToString(n) \o "/" \o ToString(max)
      \o " times. " \o Variant_MainMessage(e, method)

\* The variant's _retry(e, retry_count, method, kwargs).
Variant_Retry(e, retry_count, method) ==
    IF ~IsInstance(e, Variant_retryable_errors)
    THEN [fail_message |->
            Some("Non-retryable error: " \o Variant_MainMessage(e, method)),
          sleep |-> NoneVal]
    ELSE IF retry_count = cfg.max_retries
    THEN [fail_message |->
            Some(Variant_ExhaustedMessage(e, retry_count, cfg.max_retries,
                                          method)),
          sleep |-> NoneVal]
    ELSE IF retry_count < cfg.max_retries
    THEN [fail_message |-> NoneVal,
          sleep |-> Some(IF cfg.retry_timeout # NoneVal
                         THEN Val(cfg.retry_timeout)
                         ELSE Pow2(retry_count))]
    ELSE [fail_message |-> Some(Variant_MainMessage(e, method)),
          sleep |-> NoneVal]

\* e.message of a ClientResponseError
MessageOf(e) == ReasonOf(e.status)

\* The except clauses of the variant's _request in the loop iteration with
\* retry_count = tk.attempt - 1 (tk.attempt counts the iterations from 1).
Variant_Handle(tk, e) ==
    LET r == Variant_Retry(e, tk.attempt - 1, tk.method)
    IN  IF Variant_Handler(e) = "base"
        THEN HandleBaseException(tk, e)
        ELSE IF r.fail_message = NoneVal
        THEN [tk EXCEPT !.pc = "sleep", !.timer = Val(r.sleep) * TicksPerSec]
        ELSE IF Variant_Handler(e) = "status"
        THEN [tk EXCEPT
                !.pc = "done",
                !.result = Some(FailedResponse(
                    e.status,
                    Val(r.fail_message) \o ". text: " \o MessageOf(e),
                    IF e.status = 429 /\ cfg.allow_too_many_reqs_retry
                    THEN "Too Many Requests" ELSE ""))]
        ELSE [tk EXCEPT
                !.pc = "done",
                !.result = Some(FailedResponse(0, Val(r.fail_message), ""))]

\* self.session.request(...) of one iteration of the variant's loop
Variant_NetCall(tk, h, sess) ==
    IF sess = NoneVal \/ Val(sess) \in closed
    THEN LET e  == Exc(IF sess = NoneVal THEN "AttributeError"
                       ELSE "RuntimeError", 0)
             nt == Variant_Handle(tk, e)
         IN  [task |-> nt, hist |-> Failed(h, e, nt), acquired |-> FALSE]
    ELSE [task |-> [tk EXCEPT !.pc = "net"],
          hist |-> [h EXCEPT !.attempts = @ + 1, !.on = sess],
          acquired |-> FALSE]

\* the top of one iteration of the variant's loop
Variant_Enter(tk, h, sess) ==
    IF tk.use_request_limit
    THEN IF ~HasLimiter
         THEN LET e  == Exc("TypeError", 0)
                  nt == Variant_Handle(tk, e)
              IN  [task |-> nt, hist |-> Failed(h, e, nt), acquired |-> FALSE]
         ELSE IF has_capacity
         THEN [Variant_NetCall(tk, [h EXCEPT !.permits = @ + 1], sess)
                 EXCEPT !.acquired = TRUE]
         ELSE [task |-> [tk EXCEPT !.pc = "gate"], hist |-> h,
               acquired |-> FALSE]
    ELSE Variant_NetCall(tk, h, sess)

\* An operation of the variant ends by the AttributeError of is_running.
RaiseAttributeError(t, api) ==
    /\ task' = [task EXCEPT ![t].pc = "raised",
                            ![t].raised = Some("AttributeError")]
    /\ hist' = [hist EXCEPT ![t] = Op(t, api)]
    /\ UNCHANGED <<args, made, cfg, session, closed, opened, level, recent>>

\* A public method of the variant is called: _request up to its first
\* suspension.  is_running is evaluated outside the try block.
Variant_Call(t, api, method, url, flag) ==
    /\ task[t].pc = "idle"
    /\ IF Variant_is_running = "AttributeError"
       THEN RaiseAttributeError(t, api)
       ELSE /\ session' = StartedSession
            /\ opened' = StartedCount
            /\ Begin(t, Variant_Enter(
                          [IdleTask EXCEPT
                             !.method = MethodOf(api, method),
                             !.url = ResolveUrl(url),
                             !.use_request_limit = ResolveLimit(flag),
                             !.attempt = 1],
                          [Op(t, api) EXCEPT
                             !.flag = flag, !.raw = url,
                             !.fresh = IF is_running THEN NoneVal
                                       ELSE StartedSession],
                          StartedSession))
            /\ UNCHANGED <<args, made, cfg, closed>>

Variant_Acquire(t) ==
    /\ task[t].pc = "gate"
    /\ has_capacity
    /\ Begin(t, [Variant_NetCall(task[t], [hist[t] EXCEPT !.permits = @ + 1],
                                 session)
                   EXCEPT !.acquired = TRUE])
    /\ UNCHANGED <<args, made, cfg, session, closed, opened>>

\* The network call of the current iteration completes with outcome o; the
\* variant checks the status, decodes the payload and then reads the text.
Variant_Respond(t, o) ==
    /\ task[t].pc = "net"
    /\ IF o.stage = "ok"
       THEN /\ \E order \in KeyOrders :
                 task' = [task EXCEPT ![t] =
                            [task[t] EXCEPT
                               !.pc = "done",
                               !.text = Some(BodyOf(o.status)),
                               !.result = Some(PostInit(
                                   o.status, BodyOf(o.status), Some(o.payload),
                                   NoneVal, ReasonOf(o.status), FALSE, order))]]
            /\ hist' = [hist EXCEPT ![t].outcome = "success",
                                    ![t].got = Some(o)]
       ELSE LET e  == Exc(o.cls, o.status)
                nt == Variant_Handle(task[t], e)
            IN  /\ task' = [task EXCEPT ![t] = nt]
                /\ hist' = [hist EXCEPT ![t] = Failed(@, e, nt)]
    /\ UNCHANGED <<args, made, cfg, session, closed, opened, level, recent>>

\* asyncio.sleep() of the variant's _retry is over: the loop goes on with
\* the next retry_count; after the last one the loop is over and _request
\* falls off its end, which returns None.
Variant_Wake(t) ==
    /\ task[t].pc = "sleep"
    /\ task[t].timer = 0
    /\ IF task[t].attempt < cfg.max_retries
       THEN Begin(t, Variant_Enter([task[t] EXCEPT !.attempt = @ + 1],
                                   hist[t], session))
       ELSE /\ task' = [task EXCEPT ![t].pc = "done", ![t].result = NoneVal]
            /\ hist' = [hist EXCEPT ![t].outcome = "None"]
            /\ UNCHANGED <<level, recent>>
    /\ UNCHANGED <<args, made, cfg, session, closed, opened>>

\* the variant's start()
Variant_Start(t) ==
    /\ task[t].pc = "idle"
    /\ IF Variant_is_running = "AttributeError"
       THEN RaiseAttributeError(t, "start")
       ELSE /\ session' = StartedSession
            /\ opened' = StartedCount
            /\ hist' = [hist EXCEPT ![t] =
                         [Op(t, "start") EXCEPT
                            !.fresh = IF is_running THEN NoneVal
                                      ELSE StartedSession]]
            /\ UNCHANGED <<args, made, cfg, closed, level, recent, task>>

\* the variant's stop(), which may be suspended in session.close() as the
\* canonical one
Variant_Stop(t, suspends) ==
    /\ task[t].pc = "idle"
    /\ IF Variant_is_running = "AttributeError"
       THEN RaiseAttributeError(t, "stop")
       ELSE StopFrom(t, Op(t, "stop"), suspends)

\* the variant's stop() resumes after session.close(): self.session = None
Variant_StopEnd(t) ==
    /\ task[t].pc = "closing"
    /\ session' = NoneVal
    /\ task' = [task EXCEPT ![t].pc = "idle"]
    /\ UNCHANGED <<args, made, cfg, closed, opened, level, recent, hist>>

\* ------------------------------------------- variant: specification
\* The constructor of the variant creates the first session.
InitVariant ==
    /\ args = IdleArgs
    /\ made = NoneVal
    /\ cfg \in VariantConfigs
    /\ session = Some(1)
    /\ closed = {}
    /\ opened = 1
    /\ level = 0
    /\ recent = NoRecent
    /\ task = [t \in Tasks |-> IdleTask]
    /\ hist = [t \in Tasks |-> NoHist]

VariantOutcomes ==
    {Outcome("connect", "TimeoutError", 0, EmptyDict),
     Outcome("connect", "RuntimeError", 0, EmptyDict),
     Outcome("status", "ClientResponseError", 500, EmptyDict),
     Outcome("ok", "", 200, EmptyDict)}

NextVariant ==
    \/ /\ opened < MaxSessions
       /\ \E t \in Callers, url \in Urls : Variant_Call(t, "get", "", url, NoneVal)
    \/ opened < MaxSessions /\ \E t \in Callers : Variant_Start(t)
    \/ \E t \in Callers, suspends \in BOOLEAN : Variant_Stop(t, suspends)
    \/ \E t \in Callers : Variant_StopEnd(t)
    \/ \E t \in Callers : Variant_Acquire(t)
    \/ \E t \in Callers, o \in VariantOutcomes : Variant_Respond(t, o)
    \/ \E t \in Callers : Variant_Wake(t)
    \/ \E t \in Callers : Return(t)
    \/ Tick

SpecVariant == InitVariant /\ [][NextVariant]_vars

\* ----------------------------------------------- variant: properties
\* C23: in the variant, a request all of whose attempts fail with one
\* retryable kind returns a failed Response, not None, whose message reports
\* the exhaustion, after exactly max_retries attempts and max_retries - 1
\* waits (none after the last attempt).
C23_VariantExhaustionReturns ==
    \A t \in Tasks :
        LET h == hist[t]
            e == Val(h.lastExc)
        IN  (/\ task[t].pc = "done"
             /\ h.api = "get"
             /\ h.outcome # "success"
             /\ h.lastExc # NoneVal
             /\ h.uniform
             /\ Variant_Handler(e) # "base"
             /\ IsInstance(e, Variant_retryable_errors)) =>
               /\ task[t].result # NoneVal
               /\ is_error(Val(task[t].result))
               /\ h.attempts = cfg.max_retries
               /\ h.waits = cfg.max_retries - 1
               /\ LET msg == Variant_ExhaustedMessage(
                                e, cfg.max_retries, cfg.max_retries,
                                task[t].method)
                  IN  Val(task[t].result).text =
                        IF Variant_Handler(e) = "status"
                        THEN msg \o ". text: " \o MessageOf(e) ELSE msg

\* C24: in the variant, once stop() has returned, is_running is False and
\* evaluating it raises nothing; neither a second stop() nor a following
\* start() or request raises, and a start() or request on the stopped client
\* leaves it running on a new session.
C24_VariantStoppedState ==
    [][\A t \in Tasks :
         /\ (OwnStep(t) /\ task[t].pc = "idle"
               /\ hist'[t].api \in {"stop", "start", "get"}) =>
               task'[t].pc # "raised"
         /\ Returns(t, "stop") => Variant_is_running' = "False"
         /\ (OwnStep(t) /\ task[t].pc = "idle"
               /\ hist'[t].api \in {"start", "get"}
               /\ hist[t].api = "stop") =>
               Variant_is_running' = "True"]_vars
=============================================================================
